---- MODULE Spec2Model ----
(***************************************************************************)
(* Model of drivers/regulator/adp5055-regulator.c: the bring-up of an      *)
(* ADP5055 (adp5055_probe, adp5055_parse_fw), the register write plan, and *)
(* the per-channel regulator operations bound by adp5055_ops and           *)
(* adp5055_regulators.                                                     *)
(***************************************************************************)
EXTENDS Integers, Sequences, FiniteSets, TLC

VARIABLES
    props,       \* the firmware property source of the device (name -> u32 cells)
    regs,        \* the register file of the chip, 0xD1..0xE0
    pc,          \* position of adp5055_probe
    adp5055,     \* struct adp5055 (without the regmap pointer)
    log,         \* the regmap_write calls adp5055_parse_fw has made, in order,
                 \* each with what the bus transfer and the call returned
    ret,         \* return value of adp5055_probe, once it has returned
    registered,  \* channels devm_regulator_register has registered
    op,          \* the last regulator operation a consumer invoked
    req          \* the argument of a voltage-map request

vars == <<props, regs, pc, adp5055, log, ret, registered, op, req>>

----------------------------------------------------------------------------
(* Bounds of the model. *)

\* How many properties of a property source may differ from its base profile.
MaxDeviations == 2
\* How far below MIN and above MAX requested voltages are drawn, in microvolt.
VoltMargin == 1600

----------------------------------------------------------------------------
(* errno values returned by the kernel helpers. *)

EIO == 5
ENOMEM == 12
EINVAL == 22
EOVERFLOW == 75
EREMOTEIO == 121

\* What a failing bus transfer returns (i2c: -EIO, -EREMOTEIO).
TransportErrors == {-EIO, -EREMOTEIO}

----------------------------------------------------------------------------
(* Bit operations on naturals. *)

RECURSIVE BitAnd(_, _)
BitAnd(a, b) ==
    IF a = 0 \/ b = 0 THEN 0
    ELSE (a % 2) * (b % 2) + 2 * BitAnd(a \div 2, b \div 2)

RECURSIVE BitOr(_, _)
BitOr(a, b) ==
    IF a = 0 THEN b
    ELSE IF b = 0 THEN a
    ELSE (IF a % 2 = 1 \/ b % 2 = 1 THEN 1 ELSE 0) + 2 * BitOr(a \div 2, b \div 2)

BIT(n) == 2 ^ n

GENMASK(h, l) == (2 ^ (h + 1)) - (2 ^ l)

\* __bf_shf(mask): index of the lowest set bit of a non-zero mask.
RECURSIVE bf_shf(_)
bf_shf(mask) == IF mask % 2 = 1 THEN 0 ELSE 1 + bf_shf(mask \div 2)

\* FIELD_PREP(mask, val) = ((typeof(mask))(val) << __bf_shf(mask)) & (mask).
\* The codes drawn below stay under 2^24, so the shift never wraps an
\* unsigned long.
FIELD_PREP(mask, val) == BitAnd(val * (2 ^ bf_shf(mask)), mask)

\* The conversion of a C bool to an integer: (typeof(mask))(val).
BoolVal(b) == IF b THEN 1 ELSE 0

----------------------------------------------------------------------------
(* ADP5055 register map. *)

ADP5055_CTRL123 == 209      \* 0xD1
ADP5055_CTRL_MODE1 == 211   \* 0xD3
ADP5055_CTRL_MODE2 == 212   \* 0xD4
ADP5055_DLY0 == 213         \* 0xD5
ADP5055_DLY1 == 214         \* 0xD6
ADP5055_DLY2 == 215         \* 0xD7
ADP5055_VID0 == 216         \* 0xD8
ADP5055_VID1 == 217         \* 0xD9
ADP5055_VID2 == 218         \* 0xDA
ADP5055_DVS_LIM0 == 220     \* 0xDC
ADP5055_DVS_LIM1 == 221     \* 0xDD
ADP5055_DVS_LIM2 == 222     \* 0xDE
ADP5055_FT_CFG == 223       \* 0xDF
ADP5055_PG_CFG == 224       \* 0xE0

(* ADP5055 field masks. *)

ADP5055_MASK_EN0 == BIT(0)
ADP5055_MASK_EN1 == BIT(1)
ADP5055_MASK_EN2 == BIT(2)
ADP5055_MASK_EN_MODE == GENMASK(1, 0)
ADP5055_MASK_OCP_BLANKING == BIT(7)
\* Mutation: the field one bit too low.
ADP5055_MASK_PSM321_low == GENMASK(5, 3)
ADP5055_MASK_PSM321 == GENMASK(6, 4)
ADP5055_MASK_DIS == GENMASK(2, 0)
ADP5055_MASK_DIS_DLY == GENMASK(6, 4)
\* Mutation: the field one bit too wide.
ADP5055_MASK_EN_DLY_wide == GENMASK(3, 0)
ADP5055_MASK_EN_DLY == GENMASK(2, 0)
ADP5055_MASK_DVS_LIM_UPPER == GENMASK(7, 4)
ADP5055_MASK_DVS_LIM_LOWER == GENMASK(3, 0)
ADP5055_MASK_FAST_TRANSIENT3 == GENMASK(5, 4)
ADP5055_MASK_FAST_TRANSIENT2 == GENMASK(3, 2)
ADP5055_MASK_FAST_TRANSIENT1 == GENMASK(1, 0)
ADP5055_MASK_DLY_PWRGD == BIT(4)
ADP5055_MASK_PWRGD321 == GENMASK(2, 0)

ADP5055_NUM_CH == 3

\* adp5055_reg_ranges, used as both wr_table and rd_table of the regmap.
adp5055_reg_ranges == 209 .. 224

\* Mutation: a step of 1000 uV.
adp5055_voltage_ranges_step ==
    [min |-> 408000, min_sel |-> 0, max_sel |-> 255, step |-> 1000]

\* Mutation: the last selector left out.
adp5055_voltage_ranges_short ==
    [min |-> 408000, min_sel |-> 0, max_sel |-> 254, step |-> 1500]

\* adp5055_voltage_ranges: REGULATOR_LINEAR_RANGE(408000, 0, 255, 1500).
adp5055_voltage_ranges ==
    [min |-> 408000, min_sel |-> 0, max_sel |-> 255, step |-> 1500]

----------------------------------------------------------------------------
(* The firmware property source.  A property that is present maps its name *)
(* to its u32 cells; a boolean property is present with no cells.          *)

ScalarNames ==
    {"adi,enable-mode-code", "adi,power-saving-mode-ch321-code",
     "adi,output-discharge-function-ch321-code",
     "adi,mask-power-good-ch321-code"}

BoolNames == {"adi,ocp-blanking", "adi,delay-power-good"}

ArrayNames ==
    {"adi,disable-delay-code-ch123", "adi,enable-delay-code-ch123",
     "adi,dvs-limit-upper-code-ch123", "adi,dvs-limit-lower-code-ch123",
     "adi,fast-transient-code-ch123"}

Names == ScalarNames \cup BoolNames \cup ArrayNames

\* The values a property takes in the model: "fit" codes fit their field,
\* "over" codes exceed it (up to 0xFFFFFF), "short" arrays have 2 cells.
KindsOf(n) ==
    IF n \in BoolNames THEN {"absent", "fit"}
    ELSE IF n \in ScalarNames THEN {"absent", "fit", "over"}
    ELSE {"absent", "fit", "over", "short"}

Cells(n, kind) ==
    IF n \in BoolNames THEN << >>
    ELSE IF kind = "short" THEN <<1, 2>>
    ELSE IF kind = "fit" THEN
        CASE n = "adi,enable-mode-code" -> <<2>>
          [] n = "adi,power-saving-mode-ch321-code" -> <<5>>
          [] n = "adi,output-discharge-function-ch321-code" -> <<3>>
          [] n = "adi,mask-power-good-ch321-code" -> <<6>>
          [] n = "adi,disable-delay-code-ch123" -> <<1, 2, 4>>
          [] n = "adi,enable-delay-code-ch123" -> <<7, 5, 3>>
          [] n = "adi,dvs-limit-upper-code-ch123" -> <<10, 5, 15>>
          [] n = "adi,dvs-limit-lower-code-ch123" -> <<3, 12, 9>>
          [] n = "adi,fast-transient-code-ch123" -> <<0, 1, 2>>
    ELSE
        CASE n = "adi,enable-mode-code" -> <<16777213>>
          [] n = "adi,power-saving-mode-ch321-code" -> <<26>>
          [] n = "adi,output-discharge-function-ch321-code" -> <<16777208>>
          [] n = "adi,mask-power-good-ch321-code" -> <<12>>
          [] n = "adi,disable-delay-code-ch123" -> <<8, 16777215, 13>>
          [] n = "adi,enable-delay-code-ch123" -> <<9, 256, 30>>
          [] n = "adi,dvs-limit-upper-code-ch123" -> <<16, 255, 4660>>
          [] n = "adi,dvs-limit-lower-code-ch123" -> <<31, 4096, 16777210>>
          [] n = "adi,fast-transient-code-ch123" -> <<4, 7, 16777214>>

Source(kindOf) ==
    [n \in {m \in Names : kindOf[m] # "absent"} |-> Cells(n, kindOf[n])]

\* The property sources within k properties of a base profile (nothing
\* present, or everything present with fitting codes).
PropSources(k) ==
    UNION { UNION { { Source([n \in Names |-> IF n \in S THEN g[n] ELSE base]) :
                      g \in {h \in [S -> {"absent", "fit", "over", "short"}] :
                                \A n \in S : h[n] \in KindsOf(n)} } :
                    S \in {T \in SUBSET Names : Cardinality(T) <= k} } :
            base \in {"absent", "fit"} }

\* The register contents the chip may hold when the driver binds.
PowerOnRegs ==
    { [r \in adp5055_reg_ranges |-> 0],
      [r \in adp5055_reg_ranges |-> (r * 83) % 256] }

----------------------------------------------------------------------------
(* Helpers of the kernel the driver calls. *)

\* device_property_read_u32_array(dev, name, out, n): 0 and the n cells, or
\* an error when the property is absent or does not hold n cells.
device_property_read_u32_array(p, name, n) ==
    IF name \notin DOMAIN p THEN [ret |-> -EINVAL, val |-> << >>]
    ELSE IF Len(p[name]) # n THEN [ret |-> -EOVERFLOW, val |-> << >>]
    ELSE [ret |-> 0, val |-> p[name]]

\* device_property_read_u32(dev, name, out)
device_property_read_u32(p, name) ==
    LET r == device_property_read_u32_array(p, name, 1)
    IN  IF r.ret = 0 THEN [ret |-> 0, val |-> r.val[1]] ELSE [ret |-> r.ret, val |-> 0]

\* device_property_read_bool(dev, name): the property is present.
device_property_read_bool(p, name) == name \in DOMAIN p

\* regmap_write(map, reg, val) over a bus transfer that returns xfer.
regmap_write(rf, reg, val, xfer) ==
    IF reg \notin adp5055_reg_ranges THEN [ret |-> -EIO, regs |-> rf]
    ELSE IF xfer # 0 THEN [ret |-> xfer, regs |-> rf]
    ELSE [ret |-> 0, regs |-> [rf EXCEPT ![reg] = val % 256]]

\* regmap_read(map, reg, &val)
regmap_read(rf, reg, xfer) ==
    IF reg \notin adp5055_reg_ranges THEN [ret |-> -EIO, val |-> 0]
    ELSE IF xfer # 0 THEN [ret |-> xfer, val |-> 0]
    ELSE [ret |-> 0, val |-> rf[reg]]

----------------------------------------------------------------------------
(* adp5055_parse_fw, first half: the configuration. *)

\* The defaults adp5055_parse_fw stores before it reads the properties.
Defaults ==
    [enable_mode_code |-> 0,
     ocp_blanking |-> FALSE,
     power_saving_mode_ch321_code |-> 0,
     output_discharge_function_ch321_code |-> 7,
     disable_delay_code_ch123 |-> <<0, 0, 0>>,
     enable_delay_code_ch123 |-> <<0, 0, 0>>,
     dvs_limit_upper_code_ch123 |-> <<0, 0, 0>>,
     dvs_limit_lower_code_ch123 |-> <<0, 0, 0>>,
     fast_transient_code_ch123 |-> <<3, 3, 3>>,
     delay_power_good |-> TRUE,
     mask_power_good_ch321_code |-> 0]

\* An out-parameter: the helper stores through it only when it returns 0, and
\* adp5055_parse_fw drops the helper's return value.
ReadU32(p, name, old) ==
    LET r == device_property_read_u32(p, name)
    IN  IF r.ret = 0 THEN r.val ELSE old

ReadU32Array(p, name, old) ==
    LET r == device_property_read_u32_array(p, name, ADP5055_NUM_CH)
    IN  IF r.ret = 0 THEN r.val ELSE old

\* The record after the property reads.  The two flags are assigned the
\* result of device_property_read_bool, whatever they held before.
ReadProps(p, d) ==
    [enable_mode_code |->
         ReadU32(p, "adi,enable-mode-code", d.enable_mode_code),
     ocp_blanking |-> device_property_read_bool(p, "adi,ocp-blanking"),
     power_saving_mode_ch321_code |->
         ReadU32(p, "adi,power-saving-mode-ch321-code",
                 d.power_saving_mode_ch321_code),
     output_discharge_function_ch321_code |->
         ReadU32(p, "adi,output-discharge-function-ch321-code",
                 d.output_discharge_function_ch321_code),
     disable_delay_code_ch123 |->
         ReadU32Array(p, "adi,disable-delay-code-ch123", d.disable_delay_code_ch123),
     enable_delay_code_ch123 |->
         ReadU32Array(p, "adi,enable-delay-code-ch123", d.enable_delay_code_ch123),
     dvs_limit_upper_code_ch123 |->
         ReadU32Array(p, "adi,dvs-limit-upper-code-ch123",
                      d.dvs_limit_upper_code_ch123),
     dvs_limit_lower_code_ch123 |->
         ReadU32Array(p, "adi,dvs-limit-lower-code-ch123",
                      d.dvs_limit_lower_code_ch123),
     fast_transient_code_ch123 |->
         ReadU32Array(p, "adi,fast-transient-code-ch123",
                      d.fast_transient_code_ch123),
     delay_power_good |-> device_property_read_bool(p, "adi,delay-power-good"),
     mask_power_good_ch321_code |->
         ReadU32(p, "adi,mask-power-good-ch321-code", d.mask_power_good_ch321_code)]

----------------------------------------------------------------------------
(* adp5055_parse_fw, second half: the register writes.  Channel i of the C *)
(* arrays is element i + 1 of the sequences.                               *)

Val_CTRL_MODE1(a) == FIELD_PREP(ADP5055_MASK_EN_MODE, a.enable_mode_code)

Val_CTRL_MODE2(a) ==
    BitOr(BitOr(FIELD_PREP(ADP5055_MASK_OCP_BLANKING, BoolVal(a.ocp_blanking)),
                FIELD_PREP(ADP5055_MASK_PSM321, a.power_saving_mode_ch321_code)),
          FIELD_PREP(ADP5055_MASK_DIS, a.output_discharge_function_ch321_code))

Val_DLY(a, i) ==
    BitOr(FIELD_PREP(ADP5055_MASK_DIS_DLY, a.disable_delay_code_ch123[i + 1]),
          FIELD_PREP(ADP5055_MASK_EN_DLY, a.enable_delay_code_ch123[i + 1]))

Val_DVS_LIM(a, i) ==
    BitOr(FIELD_PREP(ADP5055_MASK_DVS_LIM_UPPER, a.dvs_limit_upper_code_ch123[i + 1]),
          FIELD_PREP(ADP5055_MASK_DVS_LIM_LOWER, a.dvs_limit_lower_code_ch123[i + 1]))

Val_FT_CFG(a) ==
    BitOr(BitOr(FIELD_PREP(ADP5055_MASK_FAST_TRANSIENT1, a.fast_transient_code_ch123[1]),
                FIELD_PREP(ADP5055_MASK_FAST_TRANSIENT2, a.fast_transient_code_ch123[2])),
          FIELD_PREP(ADP5055_MASK_FAST_TRANSIENT3, a.fast_transient_code_ch123[3]))

Val_PG_CFG(a) ==
    BitOr(FIELD_PREP(ADP5055_MASK_DLY_PWRGD, BoolVal(a.delay_power_good)),
          FIELD_PREP(ADP5055_MASK_PWRGD321, a.mask_power_good_ch321_code))

\* The k-th regmap_write of adp5055_parse_fw, in program order: its register
\* and its value.
PlanLength == 10

\* Mutation: the third write sent to the VID register of channel 0.
PlanReg_vid(k) ==
    CASE k = 1 -> ADP5055_CTRL_MODE1
      [] k = 2 -> ADP5055_CTRL_MODE2
      [] k = 3 -> ADP5055_VID0
      [] k = 4 -> ADP5055_DLY1
      [] k = 5 -> ADP5055_DLY2
      [] k = 6 -> ADP5055_DVS_LIM0
      [] k = 7 -> ADP5055_DVS_LIM1
      [] k = 8 -> ADP5055_DVS_LIM2
      [] k = 9 -> ADP5055_FT_CFG
      [] k = 10 -> ADP5055_PG_CFG

PlanReg(k) ==
    CASE k = 1 -> ADP5055_CTRL_MODE1
      [] k = 2 -> ADP5055_CTRL_MODE2
      [] k = 3 -> ADP5055_DLY0
      [] k = 4 -> ADP5055_DLY1
      [] k = 5 -> ADP5055_DLY2
      [] k = 6 -> ADP5055_DVS_LIM0
      [] k = 7 -> ADP5055_DVS_LIM1
      [] k = 8 -> ADP5055_DVS_LIM2
      [] k = 9 -> ADP5055_FT_CFG
      [] k = 10 -> ADP5055_PG_CFG

PlanVal(a, k) ==
    CASE k = 1 -> Val_CTRL_MODE1(a)
      [] k = 2 -> Val_CTRL_MODE2(a)
      [] k \in 3 .. 5 -> Val_DLY(a, k - 3)
      [] k \in 6 .. 8 -> Val_DVS_LIM(a, k - 6)
      [] k = 9 -> Val_FT_CFG(a)
      [] k = 10 -> Val_PG_CFG(a)

\* Mutation: the result of regmap_write is not tested.
WriteAborts_unchecked(r) == FALSE

\* "if (ret) return ret;" after each regmap_write.
WriteAborts(r) == r # 0

\* Mutation: the sign of the test reversed.
ProbeAborts_positive(r) == r > 0

\* "if (ret < 0) return ret;" in adp5055_probe.
ProbeAborts(r) == r < 0

----------------------------------------------------------------------------
(* adp5055_probe *)

NoReq == [kind |-> "none", v |-> 0]

NoOp == [name |-> "none", ch |-> 0, arg |-> 0, ret |-> 0, acc |-> << >>]

\* The memory devm_kzalloc returns is zeroed.
ZeroedRecord ==
    [enable_mode_code |-> 0,
     ocp_blanking |-> FALSE,
     power_saving_mode_ch321_code |-> 0,
     output_discharge_function_ch321_code |-> 0,
     disable_delay_code_ch123 |-> <<0, 0, 0>>,
     enable_delay_code_ch123 |-> <<0, 0, 0>>,
     dvs_limit_upper_code_ch123 |-> <<0, 0, 0>>,
     dvs_limit_lower_code_ch123 |-> <<0, 0, 0>>,
     fast_transient_code_ch123 |-> <<0, 0, 0>>,
     delay_power_good |-> FALSE,
     mask_power_good_ch321_code |-> 0]

InitDriver ==
    /\ pc = "probe"
    /\ adp5055 = ZeroedRecord
    /\ log = << >>
    /\ ret = 0
    /\ registered = {}
    /\ op = NoOp
    /\ req = NoReq

\* of_get_regulator_init_data, devm_kzalloc, devm_regmap_init_i2c: each may
\* fail, and probe returns its error.
ProbeSetup ==
    /\ pc = "probe"
    /\ \E e \in {0, -EINVAL, -ENOMEM} :
          IF e = 0
          THEN pc' = "parse" /\ ret' = ret
          ELSE pc' = "failed" /\ ret' = e
    /\ UNCHANGED <<props, regs, adp5055, log, registered, op, req>>

\* adp5055_parse_fw up to the first regmap_write: defaults, then properties.
ParseProps ==
    /\ pc = "parse"
    /\ adp5055' = ReadProps(props, Defaults)
    /\ pc' = "write"
    /\ UNCHANGED <<props, regs, log, ret, registered, op, req>>

\* The next regmap_write of adp5055_parse_fw and the test of its result; after
\* the last one (or an abort) parse_fw returns and probe tests the result.
PlanWrite ==
    /\ pc = "write"
    /\ \E xfer \in {0} \cup TransportErrors :
       \E k \in {Len(log) + 1} :
       \E reg \in {PlanReg(k)} :
       \E val \in {PlanVal(adp5055, k)} :
       \E r \in {regmap_write(regs, reg, val, xfer)} :
          /\ log' = Append(log, [reg |-> reg, val |-> val, xfer |-> xfer, ret |-> r.ret])
          /\ regs' = r.regs
          /\ IF WriteAborts(r.ret)
             THEN \* parse_fw returns r.ret to probe
                  IF ProbeAborts(r.ret)
                  THEN pc' = "failed" /\ ret' = r.ret
                  ELSE pc' = "register" /\ ret' = ret
             ELSE IF k < PlanLength
             THEN pc' = "write" /\ ret' = ret
             ELSE \* parse_fw returns 0 to probe
                  IF ProbeAborts(0)
                  THEN pc' = "failed" /\ ret' = 0
                  ELSE pc' = "register" /\ ret' = ret
    /\ UNCHANGED <<props, adp5055, registered, op, req>>

\* One round of the registration loop.  When devm_regulator_register fails,
\* probe returns the error and the driver core releases what was registered.
RegisterChannel ==
    /\ pc = "register"
    /\ \E e \in {0, -EINVAL} :
          LET i == Cardinality(registered)
          IN  IF e # 0
              THEN pc' = "failed" /\ ret' = e /\ registered' = {}
              ELSE /\ registered' = registered \cup {i}
                   /\ pc' = IF i + 1 < ADP5055_NUM_CH THEN "register" ELSE "bound"
                   /\ ret' = IF i + 1 < ADP5055_NUM_CH THEN ret ELSE 0
    /\ UNCHANGED <<props, regs, adp5055, log, op, req>>

InitProbe ==
    /\ props \in PropSources(MaxDeviations)
    /\ regs \in PowerOnRegs
    /\ InitDriver

NextProbe == ProbeSetup \/ ParseProps \/ PlanWrite \/ RegisterChannel

SpecProbe == InitProbe /\ [][NextProbe]_vars

----------------------------------------------------------------------------
(* adp5055_regulators: the descriptor of channel i (ADP5055_REG_). *)

Channels == 0 .. (ADP5055_NUM_CH - 1)

vsel_reg(i) ==
    CASE i = 0 -> ADP5055_VID0
      [] i = 1 -> ADP5055_VID1
      [] i = 2 -> ADP5055_VID2

vsel_mask == GENMASK(7, 0)

enable_reg == ADP5055_CTRL123

\* Mutation: every channel given the mask of channel 0.
enable_mask_shared(i) == ADP5055_MASK_EN0

enable_mask(i) ==
    CASE i = 0 -> ADP5055_MASK_EN0
      [] i = 1 -> ADP5055_MASK_EN1
      [] i = 2 -> ADP5055_MASK_EN2

----------------------------------------------------------------------------
(* The regulator helpers adp5055_ops binds. *)

\* regmap_update_bits(map, reg, mask, val): read, merge, write when changed.
\* xr and xw are what the read and the write transfer return.
regmap_update_bits(rf, reg, mask, val, xr, xw) ==
    LET r == regmap_read(rf, reg, xr)
        tmp == BitOr(r.val - BitAnd(r.val, mask), BitAnd(val, mask))
        w == regmap_write(rf, reg, tmp, xw)
    IN  IF r.ret # 0
        THEN [ret |-> r.ret, regs |-> rf, acc |-> <<[rw |-> "r", reg |-> reg]>>]
        ELSE IF tmp = r.val
        THEN [ret |-> 0, regs |-> rf, acc |-> <<[rw |-> "r", reg |-> reg]>>]
        ELSE [ret |-> w.ret, regs |-> w.regs,
              acc |-> <<[rw |-> "r", reg |-> reg], [rw |-> "w", reg |-> reg]>>]

\* regulator_list_voltage_linear_range(rdev, selector)
regulator_list_voltage_linear_range(sel) ==
    LET r == adp5055_voltage_ranges
    IN  IF sel < r.min_sel \/ sel > r.max_sel THEN -EINVAL
        ELSE r.min + (sel - r.min_sel) * r.step

\* regulator_map_voltage_linear_range: the least selector whose voltage is at
\* least uV, or an error outside the range.
regulator_map_voltage_linear_range(uV) ==
    LET r == adp5055_voltage_ranges
        max == r.min + (r.max_sel - r.min_sel) * r.step
    IN  IF uV < r.min \/ uV > max THEN -EINVAL
        ELSE ((uV - r.min) + (r.step - 1)) \div r.step + r.min_sel

\* What the bus transfers of one operation return: all succeed, the read
\* fails, or the write fails.
OpFaults == {[r |-> 0, w |-> 0], [r |-> -EIO, w |-> 0], [r |-> 0, w |-> -EIO]}

ReadFaults == {0, -EIO}

\* .enable = regulator_enable_regmap
Enable(i) ==
    /\ i \in registered
    /\ \E x \in OpFaults :
       \E u \in {regmap_update_bits(regs, enable_reg, enable_mask(i),
                                     enable_mask(i), x.r, x.w)} :
          /\ regs' = u.regs
          /\ op' = [name |-> "enable", ch |-> i, arg |-> 0, ret |-> u.ret,
                    acc |-> u.acc]
    /\ UNCHANGED <<props, pc, adp5055, log, ret, registered, req>>

\* .disable = regulator_disable_regmap
Disable(i) ==
    /\ i \in registered
    /\ \E x \in OpFaults :
       \E u \in {regmap_update_bits(regs, enable_reg, enable_mask(i), 0, x.r, x.w)} :
          /\ regs' = u.regs
          /\ op' = [name |-> "disable", ch |-> i, arg |-> 0, ret |-> u.ret,
                    acc |-> u.acc]
    /\ UNCHANGED <<props, pc, adp5055, log, ret, registered, req>>

\* .is_enabled = regulator_is_enabled_regmap: an error, or val != 0 of the
\* masked register.
IsEnabled(i) ==
    /\ i \in registered
    /\ \E xr \in ReadFaults :
       \E r \in {regmap_read(regs, enable_reg, xr)} :
          op' = [name |-> "is_enabled", ch |-> i, arg |-> 0,
                 ret |-> IF r.ret # 0 THEN r.ret
                         ELSE IF BitAnd(r.val, enable_mask(i)) # 0 THEN 1 ELSE 0,
                 acc |-> <<[rw |-> "r", reg |-> enable_reg]>>]
    /\ UNCHANGED <<props, regs, pc, adp5055, log, ret, registered, req>>

\* .set_voltage_sel = regulator_set_voltage_sel_regmap
SetVoltageSel(i, sel) ==
    /\ i \in registered
    /\ \E x \in OpFaults :
       \E u \in {regmap_update_bits(regs, vsel_reg(i), vsel_mask,
                                     sel * (2 ^ bf_shf(vsel_mask)), x.r, x.w)} :
          /\ regs' = u.regs
          /\ op' = [name |-> "set_voltage_sel", ch |-> i, arg |-> sel, ret |-> u.ret,
                    acc |-> u.acc]
    /\ UNCHANGED <<props, pc, adp5055, log, ret, registered, req>>

\* .get_voltage_sel = regulator_get_voltage_sel_regmap
GetVoltageSel(i) ==
    /\ i \in registered
    /\ \E xr \in ReadFaults :
       \E r \in {regmap_read(regs, vsel_reg(i), xr)} :
          op' = [name |-> "get_voltage_sel", ch |-> i, arg |-> 0,
                 ret |-> IF r.ret # 0 THEN r.ret
                         ELSE BitAnd(r.val, vsel_mask) \div (2 ^ bf_shf(vsel_mask)),
                 acc |-> <<[rw |-> "r", reg |-> vsel_reg(i)]>>]
    /\ UNCHANGED <<props, regs, pc, adp5055, log, ret, registered, req>>

\* .list_voltage of the requested selector
ListVoltage ==
    /\ req.kind = "sel"
    /\ op = NoOp
    /\ op' = [name |-> "list_voltage", ch |-> 0, arg |-> req.v,
              ret |-> regulator_list_voltage_linear_range(req.v),
              acc |-> << >>]
    /\ UNCHANGED <<props, regs, pc, adp5055, log, ret, registered, req>>

\* .map_voltage of the requested voltage, or of the voltage just listed
MapVoltage ==
    /\ \E uV \in IF req.kind = "uV" /\ op = NoOp THEN {req.v}
                  ELSE IF op.name = "list_voltage" /\ op.ret >= 0 THEN {op.ret}
                  ELSE {} :
          op' = [name |-> "map_voltage", ch |-> 0, arg |-> uV,
                 ret |-> regulator_map_voltage_linear_range(uV),
                 acc |-> << >>]
    /\ UNCHANGED <<props, regs, pc, adp5055, log, ret, registered, req>>

----------------------------------------------------------------------------
(* The driver from bind on: probe, then the consumer's operations on the   *)
(* channels that are registered.                                           *)

\* The selectors a consumer sets in the model.
SelInputs == {170, 255}

Init ==
    /\ props \in PropSources(0)
    /\ regs \in PowerOnRegs
    /\ InitDriver

Next ==
    \/ ProbeSetup
    \/ ParseProps
    \/ PlanWrite
    \/ RegisterChannel
    \/ \E i \in Channels : Enable(i)
    \/ \E i \in Channels : Disable(i)
    \/ \E i \in Channels : IsEnabled(i)
    \/ \E i \in Channels : \E sel \in SelInputs : SetVoltageSel(i, sel)
    \/ \E i \in Channels : GetVoltageSel(i)

Spec == Init /\ [][Next]_vars

----------------------------------------------------------------------------
(* A bound device whose enable register holds any byte. *)

\* The state adp5055_probe leaves when every step succeeded.
Bound(p, rf) ==
    LET a == ReadProps(p, Defaults)
    IN  /\ props = p
        /\ adp5055 = a
        /\ log = [k \in 1 .. PlanLength |->
                    [reg |-> PlanReg(k), val |-> PlanVal(a, k), xfer |-> 0, ret |-> 0]]
        /\ regs = [r \in adp5055_reg_ranges |->
                     IF \E k \in 1 .. PlanLength : PlanReg(k) = r
                     THEN PlanVal(a, CHOOSE k \in 1 .. PlanLength : PlanReg(k) = r)
                     ELSE rf[r]]
        /\ pc = "bound"
        /\ ret = 0
        /\ registered = Channels
        /\ op = NoOp

InitEnable ==
    /\ \E p \in PropSources(0) : \E b \in 0 .. 255 :
          Bound(p, [r \in adp5055_reg_ranges |-> IF r = enable_reg THEN b ELSE 0])
    /\ req = NoReq

NextEnable ==
    \/ \E i \in Channels : Enable(i)
    \/ \E i \in Channels : Disable(i)
    \/ \E i \in Channels : IsEnabled(i)

SpecEnable == InitEnable /\ [][NextEnable]_vars

----------------------------------------------------------------------------
(* The voltage map of a bound device, applied to requested selectors and   *)
(* to requested voltages.                                                  *)

VoltRequests ==
    LET r == adp5055_voltage_ranges
    IN  {[kind |-> "sel", v |-> c] : c \in (r.min_sel - 1) .. (r.max_sel + 1)}
        \cup {[kind |-> "uV", v |-> u] :
                 u \in (408000 - VoltMargin) .. (790500 + VoltMargin)}

InitVolt ==
    /\ Bound(Source([n \in Names |-> "absent"]), [r \in adp5055_reg_ranges |-> 0])
    /\ req \in VoltRequests

NextVolt == ListVoltage \/ MapVoltage

SpecVolt == InitVolt /\ [][NextVolt]_vars

----------------------------------------------------------------------------
(* Vocabulary of the properties.  The layouts are written out as numbers,  *)
(* independently of the masks and addresses above.                         *)

\* adp5055_parse_fw was entered and has returned.
ParseFwReturned == pc \in {"register", "bound"} \/ (pc = "failed" /\ log # << >>)

AllWritesOk == \A k \in DOMAIN log : log[k].ret = 0

Fits(a) ==
    /\ a.enable_mode_code < 4
    /\ a.power_saving_mode_ch321_code < 8
    /\ a.output_discharge_function_ch321_code < 8
    /\ a.mask_power_good_ch321_code < 8
    /\ \A c \in 1 .. 3 :
          /\ a.disable_delay_code_ch123[c] < 8
          /\ a.enable_delay_code_ch123[c] < 8
          /\ a.dvs_limit_upper_code_ch123[c] < 16
          /\ a.dvs_limit_lower_code_ch123[c] < 16
          /\ a.fast_transient_code_ch123[c] < 4

Flag(b) == IF b THEN 1 ELSE 0

\* The documented write plan of a record whose codes fit: register, byte.
DocumentedPlan(a) ==
    << <<211, a.enable_mode_code>>,
       <<212, 128 * Flag(a.ocp_blanking) + 16 * a.power_saving_mode_ch321_code
              + a.output_discharge_function_ch321_code>>,
       <<213, 16 * a.disable_delay_code_ch123[1] + a.enable_delay_code_ch123[1]>>,
       <<214, 16 * a.disable_delay_code_ch123[2] + a.enable_delay_code_ch123[2]>>,
       <<215, 16 * a.disable_delay_code_ch123[3] + a.enable_delay_code_ch123[3]>>,
       <<220, 16 * a.dvs_limit_upper_code_ch123[1] + a.dvs_limit_lower_code_ch123[1]>>,
       <<221, 16 * a.dvs_limit_upper_code_ch123[2] + a.dvs_limit_lower_code_ch123[2]>>,
       <<222, 16 * a.dvs_limit_upper_code_ch123[3] + a.dvs_limit_lower_code_ch123[3]>>,
       <<223, a.fast_transient_code_ch123[1] + 4 * a.fast_transient_code_ch123[2]
              + 16 * a.fast_transient_code_ch123[3]>>,
       <<224, 16 * Flag(a.delay_power_good) + a.mask_power_good_ch321_code>> >>

Issued == [k \in DOMAIN log |-> <<log[k].reg, log[k].val>>]

\* The documented fields of a register: code, lowest bit, width.
FieldsOf(a, reg) ==
    CASE reg = 211 -> {<<a.enable_mode_code, 0, 2>>}
      [] reg = 212 -> {<<Flag(a.ocp_blanking), 7, 1>>,
                       <<a.power_saving_mode_ch321_code, 4, 3>>,
                       <<a.output_discharge_function_ch321_code, 0, 3>>}
      [] reg \in 213 .. 215 -> {<<a.disable_delay_code_ch123[reg - 212], 4, 3>>,
                                <<a.enable_delay_code_ch123[reg - 212], 0, 3>>}
      [] reg \in 220 .. 222 -> {<<a.dvs_limit_upper_code_ch123[reg - 219], 4, 4>>,
                                <<a.dvs_limit_lower_code_ch123[reg - 219], 0, 4>>}
      [] reg = 223 -> {<<a.fast_transient_code_ch123[1], 0, 2>>,
                       <<a.fast_transient_code_ch123[2], 2, 2>>,
                       <<a.fast_transient_code_ch123[3], 4, 2>>}
      [] reg = 224 -> {<<Flag(a.delay_power_good), 4, 1>>,
                       <<a.mask_power_good_ch321_code, 0, 3>>}
      [] OTHER -> {}

BitOf(x, n) == (x \div (2 ^ n)) % 2

DocumentedBits(a, reg) ==
    {n \in 0 .. 7 : \E f \in FieldsOf(a, reg) : n \in f[2] .. (f[2] + f[3] - 1)}

----------------------------------------------------------------------------
(* C1: when the codes of the record fit their widths and no write fails,   *)
(* adp5055_parse_fw issues the documented 10 writes, in the documented     *)
(* order with the documented bytes, and nothing else: the writes issued so *)
(* far are always a prefix of the documented plan, and all 10 are issued   *)
(* once parse_fw has returned.                                             *)
C1_PlanInOrder ==
    (Fits(adp5055) /\ AllWritesOk) =>
        /\ Len(log) <= 10
        /\ Issued = SubSeq(DocumentedPlan(adp5055), 1, Len(log))
        /\ ParseFwReturned => Len(log) = 10

C1_Witness ==
    /\ pc = "bound"
    /\ DOMAIN props = Names
    /\ Fits(adp5055)
    /\ AllWritesOk
    /\ Len(log) = 10
    /\ log[2].val = 211

(* C2: when a write of the plan fails, it is the last write attempted: the *)
(* writes before it succeeded and are still in the registers, they went to *)
(* the first k-1 registers of the plan, no register was written twice, and *)
(* probe returns exactly what the transport returned.                      *)
C2_AbortOnFirstFailure ==
    \A k \in DOMAIN log :
        log[k].ret # 0 =>
            /\ k = Len(log)
            /\ k <= 10
            /\ \A j \in 1 .. (k - 1) : log[j].ret = 0 /\ regs[log[j].reg] = log[j].val
            /\ [j \in 1 .. k |-> log[j].reg]
                   = SubSeq(<<211, 212, 213, 214, 215, 220, 221, 222, 223, 224>>, 1, k)
            /\ pc = "failed"
            /\ ret = log[k].xfer
            /\ registered = {}

C2_Witness ==
    /\ pc = "failed"
    /\ Len(log) = 3
    /\ log[1].ret = 0 /\ log[2].ret = 0
    /\ log[3].xfer = -121
    /\ ret = -121

DocumentedDefaults ==
    [enable_mode_code |-> 0,
     ocp_blanking |-> FALSE,
     power_saving_mode_ch321_code |-> 0,
     output_discharge_function_ch321_code |-> 7,
     disable_delay_code_ch123 |-> <<0, 0, 0>>,
     enable_delay_code_ch123 |-> <<0, 0, 0>>,
     dvs_limit_upper_code_ch123 |-> <<0, 0, 0>>,
     dvs_limit_lower_code_ch123 |-> <<0, 0, 0>>,
     fast_transient_code_ch123 |-> <<3, 3, 3>>,
     delay_power_good |-> TRUE,
     mask_power_good_ch321_code |-> 0]

FieldOfName(n) ==
    CASE n = "adi,enable-mode-code" -> "enable_mode_code"
      [] n = "adi,ocp-blanking" -> "ocp_blanking"
      [] n = "adi,power-saving-mode-ch321-code" -> "power_saving_mode_ch321_code"
      [] n = "adi,output-discharge-function-ch321-code" ->
             "output_discharge_function_ch321_code"
      [] n = "adi,disable-delay-code-ch123" -> "disable_delay_code_ch123"
      [] n = "adi,enable-delay-code-ch123" -> "enable_delay_code_ch123"
      [] n = "adi,dvs-limit-upper-code-ch123" -> "dvs_limit_upper_code_ch123"
      [] n = "adi,dvs-limit-lower-code-ch123" -> "dvs_limit_lower_code_ch123"
      [] n = "adi,fast-transient-code-ch123" -> "fast_transient_code_ch123"
      [] n = "adi,delay-power-good" -> "delay_power_good"
      [] n = "adi,mask-power-good-ch321-code" -> "mask_power_good_ch321_code"

Resolved == pc \in {"write", "register", "bound"} \/ (pc = "failed" /\ log # << >>)

(* C3: every parameter that is absent leaves its field at the documented   *)
(* default, and every well-formed parameter that is present replaces it;   *)
(* in particular an empty property source yields the documented defaults.  *)
C3_DefaultsWhenAbsent ==
    Resolved =>
        /\ \A n \in Names \ DOMAIN props :
              adp5055[FieldOfName(n)] = DocumentedDefaults[FieldOfName(n)]
        /\ \A n \in BoolNames \cap DOMAIN props : adp5055[FieldOfName(n)] = TRUE
        /\ \A n \in ScalarNames \cap DOMAIN props :
              Len(props[n]) = 1 => adp5055[FieldOfName(n)] = props[n][1]
        /\ \A n \in ArrayNames \cap DOMAIN props :
              Len(props[n]) = 3 => adp5055[FieldOfName(n)] = props[n]
        /\ DOMAIN props = {} => adp5055 = DocumentedDefaults

Malformed == \E n \in ArrayNames \cap DOMAIN props : Len(props[n]) # 3

(* C4: when an array parameter is present with the wrong number of cells,  *)
(* resolution fails: no record is produced and no register is written.     *)
C4_MalformedAborts ==
    Malformed => (log = << >> /\ pc \in {"probe", "parse", "failed"})

SetBit(x, n) == IF BitOf(x, n) = 1 THEN x ELSE x + 2 ^ n

ClearBit(x, n) == IF BitOf(x, n) = 1 THEN x - 2 ^ n ELSE x

C5_EnableStep ==
    /\ \A r \in (DOMAIN regs) \ {209} : regs'[r] = regs[r]
    /\ (op'.name = "enable" /\ op'.ret = 0) => regs'[209] = SetBit(regs[209], op'.ch)
    /\ (op'.name = "disable" /\ op'.ret = 0) => regs'[209] = ClearBit(regs[209], op'.ch)
    /\ (op'.name \in {"enable", "disable"} /\ op'.ret # 0) => regs' = regs
    /\ op'.name = "is_enabled" =>
          /\ regs' = regs
          /\ op'.ret >= 0 => op'.ret = BitOf(regs[209], op'.ch)

(* C5: on a bound device, whatever byte the enable register 0xD1 holds, an *)
(* enable of channel i that returns 0 sets bit i of it and a disable that  *)
(* returns 0 clears bit i, every other bit and every other register stays  *)
(* as it was, and is_enabled of channel i returns 1 exactly when bit i is  *)
(* set, and changes nothing.                                               *)
C5_EnableBits == [][C5_EnableStep]_vars

C5_Witness ==
    /\ op.name = "is_enabled" /\ op.ch = 1 /\ op.ret = 1
    /\ regs[209] = 170

(* C6: for every selector c in 0..255, list_voltage(c) is 408000 + 1500 c  *)
(* (408000 for 0, 790500 for 255), and map_voltage of that voltage is c.   *)
C6_RoundTrip ==
    req.kind = "sel" =>
        /\ (op.name = "list_voltage" /\ req.v \in 0 .. 255) =>
               /\ op.ret = 408000 + 1500 * req.v
               /\ req.v = 0 => op.ret = 408000
               /\ req.v = 255 => op.ret = 790500
        /\ op.name = "map_voltage" =>
               /\ req.v \in 0 .. 255
               /\ op.arg = 408000 + 1500 * req.v
               /\ op.ret = req.v

C6_Witness ==
    /\ req = [kind |-> "sel", v |-> 255]
    /\ op.name = "map_voltage"
    /\ op.arg = 790500
    /\ op.ret = 255

(* C7: map_voltage(v) succeeds exactly when 408000 <= v <= 790500, and     *)
(* then returns the least selector in 0..255 whose voltage is at least v.  *)
C7_MapVoltage ==
    (req.kind = "uV" /\ op.name = "map_voltage") =>
        /\ op.arg = req.v
        /\ (op.ret >= 0) <=> (408000 <= req.v /\ req.v <= 790500)
        /\ op.ret >= 0 =>
              /\ op.ret \in 0 .. 255
              /\ 408000 + 1500 * op.ret >= req.v
              /\ op.ret > 0 => 408000 + 1500 * (op.ret - 1) < req.v

C7_Witness ==
    /\ req = [kind |-> "uV", v |-> 408001]
    /\ op.name = "map_voltage"
    /\ op.ret = 1

(* C8: whatever the codes of the record, every byte adp5055_parse_fw       *)
(* writes is in 0..255, holds in each documented field the low bits of     *)
(* that field's code and 0 in every other bit, and the write fails only    *)
(* when the bus transfer fails.                                            *)
C8_Truncation ==
    \A k \in DOMAIN log :
        /\ log[k].val \in 0 .. 255
        /\ FieldsOf(adp5055, log[k].reg) # {}
        /\ \A f \in FieldsOf(adp5055, log[k].reg) :
              (log[k].val \div (2 ^ f[2])) % (2 ^ f[3]) = f[1] % (2 ^ f[3])
        /\ \A n \in (0 .. 7) \ DocumentedBits(adp5055, log[k].reg) :
              BitOf(log[k].val, n) = 0
        /\ log[k].ret # 0 => log[k].xfer # 0

C8_Witness ==
    /\ pc = "bound"
    /\ DOMAIN props = {"adi,enable-delay-code-ch123"}
    /\ adp5055.enable_delay_code_ch123 = <<9, 256, 30>>
    /\ ~Fits(adp5055)
    /\ Len(log) = 10
    /\ log[3].val = 1 /\ log[4].val = 0 /\ log[5].val = 6

(* C9: a channel is registered, and an operation on it invoked, only after *)
(* all 10 writes of the plan succeeded; when a write fails, probe returns  *)
(* that error and no channel is registered.                                *)
C9_RegisterAfterPlan ==
    /\ (registered # {} \/ op # NoOp) => (Len(log) = 10 /\ AllWritesOk)
    /\ ~AllWritesOk =>
          /\ registered = {}
          /\ pc = "failed"
          /\ ret = log[Len(log)].ret
          /\ ret # 0

C9_Witness ==
    /\ pc = "bound"
    /\ registered = {0, 1, 2}
    /\ Len(log) = 10
    /\ op.name = "enable" /\ op.ch = 2 /\ op.ret = 0

C10_State ==
    /\ \A k \in DOMAIN log :
          log[k].reg \in (209 .. 224) \ {209, 216, 217, 218}
    /\ \A j, k \in DOMAIN log : j # k => log[j].reg # log[k].reg
    /\ \A j \in DOMAIN op.acc : op.acc[j].reg \in {209, 216, 217, 218}

C10_PlanStep ==
    log' # log => \A r \in {209, 216, 217, 218} : regs'[r] = regs[r]

(* C10: every register the driver accesses lies in 0xD1..0xE0; the plan    *)
(* writes 10 distinct registers, none of them 0xD1, 0xD8, 0xD9 or 0xDA,    *)
(* and a write of the plan leaves those four registers as they were; the   *)
(* operations access only those four.                                      *)
C10_Addresses == [](C10_State) /\ [][C10_PlanStep]_vars

C10_Witness ==
    /\ pc = "bound"
    /\ Len(log) = 10
    /\ op.name = "set_voltage_sel" /\ op.ch = 2 /\ op.ret = 0
    /\ regs[218] = 170
    /\ regs[209] = 195

====
